---------------------------- MODULE Spec2Model ----------------------------
(***************************************************************************)
(* Multi-armed bandit value calculator: the simulation engine              *)
(* (experiments.py), the table helpers (util.py) and the aggregation done  *)
(* by the page script (app.py).                                            *)
(*                                                                         *)
(* Python lists, dicts and DataFrame axes keep their own indexing: a list  *)
(* of length k is a function on 0..k-1, a dict is a function on its key    *)
(* set, a DataFrame is a record of its column labels and its rows.         *)
(*                                                                         *)
(* Accuracies are counted in quarters (AccuracyUnit quarters = 1.0), the   *)
(* slider values 0.0, 0.25, 0.5, 0.75, 1.0: for these 1 - accuracy and its *)
(* product with a small integer are exact in binary floating point, so the *)
(* integer arithmetic below is the arithmetic the code performs.           *)
(***************************************************************************)
EXTENDS Integers, Sequences, FiniteSets, TLC

(***************************************************************************)
(* Bounds of the model.                                                    *)
(***************************************************************************)
MaxModels == 2

MaxSteps == 2

MaxRewards == 2

MaxObservations == 4

MaxBeta == 1

MaxStartCount == 1

MaxBatch == 12

(***************************************************************************)
(* Program constants.                                                      *)
(***************************************************************************)
MinModels == 2

MaxModelCount == 10

AccuracyUnit == 4

AccuracyLevels == {0, 2, AccuracyUnit}

(***************************************************************************)
(* Python lists and dicts.                                                 *)
(***************************************************************************)
PyLen(l) == Cardinality(DOMAIN l)

EmptyList == [j \in {} |-> 0]

PyAppend(l, x) == [j \in 0..PyLen(l) |-> IF j < PyLen(l) THEN l[j] ELSE x]

ListOf(k, x) == [j \in 0..(k - 1) |-> x]

None == [none |-> TRUE]

\* sum() over the values of a dict, of a Series or of a row.
RECURSIVE DictSum(_)
DictSum(d) ==
    IF DOMAIN d = {} THEN 0
    ELSE LET k == CHOOSE x \in DOMAIN d : TRUE
         IN  d[k] + DictSum([x \in (DOMAIN d) \ {k} |-> d[x]])

VARIABLES
    pc,                      \* position of the program
    model_accuracies,        \* list of accuracies, in quarters
    time_series_length,      \* TIME_SERIES_LENGTH
    no_of_rewards,           \* NO_OF_REWARDS
    i,                       \* loop index of the running time series driver
    data,                    \* thompson_sampling_experiment: the RewardBatch passed in
    reward_dict,             \* generate_ts_time_series: rewards/penalties kept between steps
    results_list,            \* results_list of generate_ts_time_series
    control_results,         \* results_list of generate_control_time_series
    rewards,                 \* thompson_sampling_experiment: the rewards list (mutated in place)
    penalties,               \* thompson_sampling_experiment: the penalties list
    n,                       \* thompson_sampling_experiment: row index
    beta,                    \* the beta_d values drawn for the row processed last
    model_selected,          \* thompson_sampling_experiment: model_selected
    count_of_model_selected, \* the dict an allocator returned last
    given,                   \* the values of the lists the running allocator call was given
    returned,                \* the values of the lists the allocator returned last
    cost_of_failure,         \* COST_OF_FAILURE
    no_of_requests,          \* NO_OF_REQUESTS
    ts_bandit_selected,      \* app.py: the normalised Thompson Sampling table
    ts_misclassifications,   \* app.py: its misclassification table, scaled
    control_bandit_selected, \* app.py: the normalised control table
    control_misclassifications, \* app.py: its misclassification table, scaled
    cost_incurred,           \* app.py: the headline financial benefit
    ts_cumsum,               \* app.py: cumulative cost, Thompson Sampling
    control_cumsum,          \* app.py: cumulative cost, control
    model_misclassifications, \* app.py: the per-model table shown
    totals                   \* app.py: the totals of that table

appVars == <<cost_of_failure, no_of_requests, ts_bandit_selected,
             ts_misclassifications, control_bandit_selected,
             control_misclassifications, cost_incurred, ts_cumsum,
             control_cumsum, model_misclassifications, totals>>

vars == <<pc, model_accuracies, time_series_length, no_of_rewards, i, data,
          reward_dict, results_list, control_results, rewards, penalties, n,
          beta, model_selected, count_of_model_selected, given, returned,
          appVars>>

(***************************************************************************)
(* create_simulated_reward_data: one column per accuracy, no_of_rewards    *)
(* rows, each cell a binomial(1, accuracy) draw: 0 for accuracy 0.0, 1 for *)
(* accuracy 1.0, either otherwise.                                         *)
(***************************************************************************)
BinomialDraws(accuracy) ==
    IF accuracy = 0 THEN {0}
    ELSE IF accuracy = AccuracyUnit THEN {1}
    ELSE {0, 1}

create_simulated_reward_data(accuracies, rows) ==
    { d \in [0..(rows - 1) -> [DOMAIN accuracies -> {0, 1}]] :
        \A r \in 0..(rows - 1) : \A m \in DOMAIN accuracies :
            d[r][m] \in BinomialDraws(accuracies[m]) }

(***************************************************************************)
(* random.betavariate: a float of [0, 1].  Only the order of the values of *)
(* one row is read, so a value is its rank, 0 standing for 0.0.            *)
(***************************************************************************)
BetaValues == 0..MaxBeta

(***************************************************************************)
(* thompson_sampling_experiment, the inner loop over the models of one     *)
(* row: bandit = 0, beta_max = 0, a model replaces the incumbent when its  *)
(* beta_d > beta_max.                                                      *)
(***************************************************************************)
RECURSIVE ScanModels(_, _, _, _, _)
ScanModels(draws, no_of_models, m, bandit, beta_max) ==
    IF m >= no_of_models THEN bandit
    ELSE IF draws[m] > beta_max
         THEN ScanModels(draws, no_of_models, m + 1, m, draws[m])
         ELSE ScanModels(draws, no_of_models, m + 1, bandit, beta_max)

\* Variant: a model replaces the incumbent on beta_d >= beta_max.
RECURSIVE ScanModelsGE(_, _, _, _, _)
ScanModelsGE(draws, no_of_models, m, bandit, beta_max) ==
    IF m >= no_of_models THEN bandit
    ELSE IF draws[m] >= beta_max
         THEN ScanModelsGE(draws, no_of_models, m + 1, m, draws[m])
         ELSE ScanModelsGE(draws, no_of_models, m + 1, bandit, beta_max)

SelectBanditGE(draws, no_of_models) == ScanModelsGE(draws, no_of_models, 0, 0, 0)

SelectBandit(draws, no_of_models) == ScanModels(draws, no_of_models, 0, 0, 0)

(***************************************************************************)
(* dict(Counter(model_selected)): a key for every value that occurs in the *)
(* list, mapped to its number of occurrences.                              *)
(***************************************************************************)
Occurrences(l, x) == Cardinality({j \in DOMAIN l : l[j] = x})

\* Variants: every key mapped to 1; a key for every index up to the largest seen.
CounterFlags(l) == [x \in {l[j] : j \in DOMAIN l} |-> 1]

CounterUpToLargest(l) ==
    LET seen == {l[j] : j \in DOMAIN l}
        largest == CHOOSE x \in seen : \A y \in seen : y <= x
    IN  IF seen = {} THEN EmptyList
        ELSE [x \in 0..largest |-> Occurrences(l, x)]

Counter(l) == [x \in {l[j] : j \in DOMAIN l} |-> Occurrences(l, x)]

(***************************************************************************)
(* control_experiment: every model gets int(floor(len(data) * (1 / N)));   *)
(* the first diff models get one more.  For the batch sizes and model      *)
(* counts of this model the double product len(data) * (1 / N) floors to   *)
(* the integer quotient.                                                   *)
(***************************************************************************)
\* Variant: the remainder is not handed out.
control_experimentNoRemainder(d, accuracies) ==
    LET no_of_models == PyLen(accuracies)
        base == PyLen(d) \div no_of_models
    IN  [m \in 0..(no_of_models - 1) |-> base]

control_experiment(d, accuracies) ==
    LET no_of_models == PyLen(accuracies)
        base == PyLen(d) \div no_of_models
        diff == PyLen(d) - no_of_models * base
    IN  [m \in 0..(no_of_models - 1) |-> IF m < diff THEN base + 1 ELSE base]

\* The page script has not run.
AppIdle ==
    /\ cost_of_failure = 1
    /\ no_of_requests = 1
    /\ ts_bandit_selected = None
    /\ ts_misclassifications = None
    /\ control_bandit_selected = None
    /\ control_misclassifications = None
    /\ cost_incurred = None
    /\ ts_cumsum = None
    /\ control_cumsum = None
    /\ model_misclassifications = None
    /\ totals = None

(***************************************************************************)
(* thompson_sampling_experiment, the update after a row: the reward list   *)
(* grows at the selected model when the reward read is 1, the penalty list *)
(* otherwise.                                                              *)
(***************************************************************************)
RewardsAfter(rw, bandit, reward) ==
    IF reward = 1 THEN [rw EXCEPT ![bandit] = @ + 1] ELSE rw

\* Variant: the penalty count is set to 1 instead of incremented.
PenaltiesAfterSet(pn, bandit, reward) ==
    IF reward = 1 THEN pn ELSE [pn EXCEPT ![bandit] = 1]

PenaltiesAfter(pn, bandit, reward) ==
    IF reward = 1 THEN pn ELSE [pn EXCEPT ![bandit] = @ + 1]

(***************************************************************************)
(* thompson_sampling_experiment                                            *)
(***************************************************************************)
NoOfModels == IF PyLen(data) = 0 THEN 0 ELSE PyLen(data[0])

\* Entry: the assertion on the number of columns and of accuracies.
TSEnter ==
    /\ pc = "ts_enter"
    /\ IF NoOfModels = PyLen(model_accuracies)
       THEN /\ pc' = "ts_rows"
            /\ model_selected' = EmptyList
            /\ n' = 0
       ELSE /\ pc' = "AssertionError"
            /\ UNCHANGED <<model_selected, n>>
    /\ UNCHANGED <<appVars, model_accuracies, time_series_length, no_of_rewards, i, data,
                   reward_dict, results_list, control_results, rewards,
                   penalties, beta, count_of_model_selected, given, returned>>

\* One row: the draws, the selection, the reward read from the batch, the update.
TSRow ==
    /\ pc = "ts_rows"
    /\ n < PyLen(data)
    /\ IF NoOfModels > PyLen(rewards) \/ NoOfModels > PyLen(penalties)
       THEN \* rewards[i] or penalties[i] past the end of the list
            /\ pc' = "IndexError"
            /\ UNCHANGED <<rewards, penalties, n, beta, model_selected>>
       ELSE \E draws \in [0..(NoOfModels - 1) -> BetaValues] :
              LET bandit == SelectBandit(draws, NoOfModels)
                  reward == data[n][bandit]
              IN  /\ beta' = draws
                  /\ model_selected' = PyAppend(model_selected, bandit)
                  /\ rewards' = RewardsAfter(rewards, bandit, reward)
                  /\ penalties' = PenaltiesAfter(penalties, bandit, reward)
                  /\ n' = n + 1
                  /\ UNCHANGED pc
    /\ UNCHANGED <<appVars, model_accuracies, time_series_length, no_of_rewards, i, data,
                   reward_dict, results_list, control_results,
                   count_of_model_selected, given, returned>>

\* After the last row: the tally of model_selected is returned with the lists.
TSReturn ==
    /\ pc = "ts_rows"
    /\ n = PyLen(data)
    /\ count_of_model_selected' = Counter(model_selected)
    /\ returned' = [rewards |-> rewards, penalties |-> penalties]
    /\ pc' = "ts_returned"
    /\ UNCHANGED <<appVars, model_accuracies, time_series_length, no_of_rewards, i, data,
                   reward_dict, results_list, control_results, rewards,
                   penalties, n, beta, model_selected, given>>

(***************************************************************************)
(* generate_ts_time_series                                                 *)
(***************************************************************************)
\* Variant: every step starts from fresh lists of zeros.
TSLoopCallReset ==
    /\ pc = "ts_loop"
    /\ i < time_series_length
    /\ data' \in create_simulated_reward_data(model_accuracies, no_of_rewards)
    /\ rewards' = ListOf(PyLen(model_accuracies), 0)
    /\ penalties' = ListOf(PyLen(model_accuracies), 0)
    /\ given' = [rewards |-> rewards', penalties |-> penalties']
    /\ pc' = "ts_enter"
    /\ UNCHANGED <<appVars, returned, model_accuracies, time_series_length, no_of_rewards, i,
                   reward_dict, results_list, control_results, n, beta,
                   model_selected, count_of_model_selected>>

\* One turn of the loop up to the call: fresh data, and the lists of step 0
\* (init_rewards, init_penalties) or those kept in reward_dict.
TSLoopCall ==
    /\ pc = "ts_loop"
    /\ i < time_series_length
    /\ data' \in create_simulated_reward_data(model_accuracies, no_of_rewards)
    /\ IF i = 0
       THEN /\ rewards' = ListOf(PyLen(model_accuracies), 0)
            /\ penalties' = ListOf(PyLen(model_accuracies), 0)
       ELSE /\ rewards' = reward_dict.rewards
            /\ penalties' = reward_dict.penalties
    /\ given' = [rewards |-> rewards', penalties |-> penalties']
    /\ pc' = "ts_enter"
    /\ UNCHANGED <<appVars, returned, model_accuracies, time_series_length, no_of_rewards, i,
                   reward_dict, results_list, control_results, n, beta,
                   model_selected, count_of_model_selected>>

\* The rest of the turn: the results are appended, the lists kept.
TSLoopStore ==
    /\ pc = "ts_returned"
    /\ results_list' = PyAppend(results_list, count_of_model_selected)
    /\ reward_dict' = [rewards |-> rewards, penalties |-> penalties]
    /\ i' = i + 1
    /\ pc' = "ts_loop"
    \* the frame of the call is gone
    /\ data' = EmptyList
    /\ n' = 0
    /\ beta' = EmptyList
    /\ model_selected' = EmptyList
    /\ UNCHANGED <<appVars, model_accuracies, time_series_length, no_of_rewards,
                   control_results, rewards, penalties,
                   count_of_model_selected, given, returned>>

\* The loop ends: results_list is returned, the control series starts.
TSLoopExit ==
    /\ pc = "ts_loop"
    /\ i = time_series_length
    /\ pc' = "control_loop"
    /\ i' = 0
    /\ UNCHANGED <<appVars, model_accuracies, time_series_length, no_of_rewards, data,
                   reward_dict, results_list, control_results, rewards,
                   penalties, n, beta, model_selected, count_of_model_selected,
                   given, returned>>

(***************************************************************************)
(* generate_control_time_series                                            *)
(***************************************************************************)
ControlLoopStep ==
    /\ pc = "control_loop"
    /\ i < time_series_length
    /\ \E batch \in create_simulated_reward_data(model_accuracies, no_of_rewards) :
         count_of_model_selected' = control_experiment(batch, model_accuracies)
    /\ control_results' = PyAppend(control_results, count_of_model_selected')
    /\ i' = i + 1
    /\ UNCHANGED <<appVars, returned, pc, model_accuracies, time_series_length, no_of_rewards, data,
                   reward_dict, results_list, rewards, penalties, n, beta,
                   model_selected, given>>

ControlLoopExit ==
    /\ pc = "control_loop"
    /\ i = time_series_length
    /\ pc' = "done"
    /\ UNCHANGED <<appVars, model_accuracies, time_series_length, no_of_rewards, i, data,
                   reward_dict, results_list, control_results, rewards,
                   penalties, n, beta, model_selected, count_of_model_selected,
                   given, returned>>

(***************************************************************************)
(* The run of the two drivers as the page script starts them: the inputs   *)
(* of the form, then generate_ts_time_series, then                         *)
(* generate_control_time_series.                                           *)
(***************************************************************************)
Init ==
    /\ pc = "ts_loop"
    /\ \E no_of_models \in MinModels..MaxModels :
         model_accuracies \in [0..(no_of_models - 1) -> AccuracyLevels]
    /\ time_series_length \in 1..MaxSteps
    /\ no_of_rewards \in 1..MaxRewards
    /\ time_series_length * no_of_rewards <= MaxObservations
    /\ i = 0
    /\ data = EmptyList
    /\ reward_dict = [rewards |-> None, penalties |-> None]
    /\ results_list = EmptyList
    /\ control_results = EmptyList
    /\ rewards = EmptyList
    /\ penalties = EmptyList
    /\ n = 0
    /\ beta = EmptyList
    /\ model_selected = EmptyList
    /\ count_of_model_selected = EmptyList
    /\ given = [rewards |-> None, penalties |-> None]
    /\ returned = [rewards |-> None, penalties |-> None]
    /\ AppIdle

Next ==
    \/ TSLoopCall
    \/ TSEnter
    \/ TSRow
    \/ TSReturn
    \/ TSLoopStore
    \/ TSLoopExit
    \/ ControlLoopStep
    \/ ControlLoopExit

Spec == Init /\ [][Next]_vars

(***************************************************************************)
(* thompson_sampling_experiment called on its own: any batch, as many      *)
(* accuracies as columns or one fewer or more, and as the state two lists  *)
(* of one length (as many entries as columns or one fewer or more) that    *)
(* hold any one count.  The counts are only passed on to betavariate.      *)
(***************************************************************************)
StartCounts(len) == {ListOf(len, c) : c \in 0..MaxStartCount}

InitCall ==
    /\ pc = "ts_enter"
    /\ \E cols \in MinModels..MaxModels, rows \in 1..MaxRewards :
         /\ data \in [0..(rows - 1) -> [0..(cols - 1) -> {0, 1}]]
         /\ no_of_rewards = rows
         /\ \E len \in (cols - 1)..(cols + 1) : model_accuracies = ListOf(len, 2)
         /\ \E len \in (cols - 1)..(cols + 1) :
              /\ rewards \in StartCounts(len)
              /\ penalties = rewards
    /\ given = [rewards |-> rewards, penalties |-> penalties]
    /\ time_series_length = 1
    /\ i = 0
    /\ reward_dict = [rewards |-> None, penalties |-> None]
    /\ results_list = EmptyList
    /\ control_results = EmptyList
    /\ n = 0
    /\ beta = EmptyList
    /\ model_selected = EmptyList
    /\ count_of_model_selected = EmptyList
    /\ returned = [rewards |-> None, penalties |-> None]
    /\ AppIdle

NextCall ==
    \/ TSEnter
    \/ TSRow
    \/ TSReturn

SpecCall == InitCall /\ [][NextCall]_vars

(***************************************************************************)
(* control_experiment called on its own: any number of models the form     *)
(* allows, any batch size, batches of different contents.                  *)
(***************************************************************************)
BatchPatterns(rows, cols) ==
    { [r \in 0..(rows - 1) |-> [m \in 0..(cols - 1) |-> 0]],
      [r \in 0..(rows - 1) |-> [m \in 0..(cols - 1) |-> 1]],
      [r \in 0..(rows - 1) |-> [m \in 0..(cols - 1) |-> (r + m) % 2]] }

ControlCall ==
    /\ pc = "control_call"
    /\ count_of_model_selected' = control_experiment(data, model_accuracies)
    /\ pc' = "control_returned"
    /\ UNCHANGED <<appVars, model_accuracies, time_series_length, no_of_rewards, i, data,
                   reward_dict, results_list, control_results, rewards,
                   penalties, n, beta, model_selected, given, returned>>

InitControl ==
    /\ pc = "control_call"
    /\ \E no_of_models \in MinModels..MaxModelCount, rows \in 1..MaxBatch :
         /\ model_accuracies = ListOf(no_of_models, 2)
         /\ data \in BatchPatterns(rows, no_of_models)
         /\ no_of_rewards = rows
    /\ time_series_length = 1
    /\ i = 0
    /\ reward_dict = [rewards |-> None, penalties |-> None]
    /\ results_list = EmptyList
    /\ control_results = EmptyList
    /\ rewards = EmptyList
    /\ penalties = EmptyList
    /\ n = 0
    /\ beta = EmptyList
    /\ model_selected = EmptyList
    /\ count_of_model_selected = EmptyList
    /\ given = [rewards |-> None, penalties |-> None]
    /\ returned = [rewards |-> None, penalties |-> None]
    /\ AppIdle

NextControl == ControlCall

SpecControl == InitControl /\ [][NextControl]_vars

(***************************************************************************)
(* util.py.  A DataFrame is its column labels, its row labels and its rows *)
(* (each a function of the column labels).                                 *)
(***************************************************************************)
\* Series.round() on a quotient num / den >= 0: to the nearest integer, a
\* half to the even one.
RoundHalfEven(num, den) ==
    LET q == num \div den
        r == num % den
    IN  IF 2 * r < den THEN q
        ELSE IF 2 * r > den THEN q + 1
        ELSE IF q % 2 = 0 THEN q ELSE q + 1

\* The sum of column c over the first k rows.
RECURSIVE ColumnSum(_, _, _)
ColumnSum(rows, k, c) ==
    IF k = 0 THEN 0 ELSE rows[k - 1][c] + ColumnSum(rows, k - 1, c)

\* pd.DataFrame(list of dicts) and fillna(0): the cell of a key a step lacks.
Filled(d, c) == IF c \in DOMAIN d THEN d[c] ELSE 0

\* Variant: the Totals row leaves out the last time step.
format_as_dataframeShortTotals(series) ==
    LET columns == UNION {DOMAIN series[t] : t \in DOMAIN series}
        filled == [t \in DOMAIN series |-> [c \in columns |-> Filled(series[t], c)]]
        sums == [c \in columns |-> ColumnSum(filled, PyLen(filled) - 1, c)]
    IN  [columns |-> columns,
         index |-> PyAppend([t \in DOMAIN series |-> ToString(t)], "Totals"),
         values |-> PyAppend(filled, sums)]

format_as_dataframe(series) ==
    LET columns == UNION {DOMAIN series[t] : t \in DOMAIN series}
        filled == [t \in DOMAIN series |-> [c \in columns |-> Filled(series[t], c)]]
        sums == [c \in columns |-> ColumnSum(filled, PyLen(filled), c)]
    IN  [columns |-> columns,
         index |-> PyAppend([t \in DOMAIN series |-> ToString(t)], "Totals"),
         values |-> PyAppend(filled, sums)]

create_misclassification_df(selected_df, accuracies) ==
    [columns |-> selected_df.columns,
     index |-> selected_df.index,
     values |-> [r \in DOMAIN selected_df.values |->
                   [c \in selected_df.columns |->
                      RoundHalfEven(selected_df.values[r][c] * (AccuracyUnit - accuracies[c]),
                                    AccuracyUnit)]]]

(***************************************************************************)
(* app.py, the aggregation.                                                *)
(***************************************************************************)
\* DataFrame * integer
Times(df, k) ==
    [columns |-> df.columns,
     index |-> df.index,
     values |-> [r \in DOMAIN df.values |-> [c \in df.columns |-> df.values[r][c] * k]]]

\* (NO_OF_REQUESTS // NO_OF_MODELS) // NO_OF_REWARDS
ScaleFactor == (no_of_requests \div PyLen(model_accuracies)) \div no_of_rewards

\* sum(df.iloc[-1, :])
LastRowTotal(df) == DictSum(df.values[PyLen(df.values) - 1])

RECURSIVE PrefixSum(_, _)
PrefixSum(l, k) == IF k = 0 THEN 0 ELSE l[k - 1] + PrefixSum(l, k - 1)

\* Variant: the cost of each step, not accumulated.
CostPerStep(df, cost) ==
    LET row_sums == [r \in DOMAIN df.values |-> DictSum(df.values[r])]
    IN  [t \in 0..(PyLen(df.values) - 2) |-> row_sums[t] * cost]

\* df.sum(axis=1).iloc[:-1].cumsum() * COST_OF_FAILURE
CumulativeCost(df, cost) ==
    LET row_sums == [r \in DOMAIN df.values |-> DictSum(df.values[r])]
    IN  [t \in 0..(PyLen(df.values) - 2) |-> PrefixSum(row_sums, t + 1) * cost]

\* df.sum(), with the index + 1 of the table shown: the sum of every column
\* over all the rows of the frame.
ColumnTotals(df) ==
    [m \in {c + 1 : c \in df.columns} |-> ColumnSum(df.values, PyLen(df.values), m - 1)]

\* Lines 62-63.
TSTables ==
    /\ pc = "app_ts"
    /\ ts_bandit_selected' = format_as_dataframe(results_list)
    /\ ts_misclassifications' =
          Times(create_misclassification_df(ts_bandit_selected', model_accuracies),
                ScaleFactor)
    /\ pc' = "app_control"
    /\ UNCHANGED <<model_accuracies, time_series_length, no_of_rewards, i, data,
                   reward_dict, results_list, control_results, rewards,
                   penalties, n, beta, model_selected, count_of_model_selected,
                   given, returned, cost_of_failure, no_of_requests,
                   control_bandit_selected, control_misclassifications,
                   cost_incurred, ts_cumsum, control_cumsum,
                   model_misclassifications, totals>>

\* Lines 67-68.
ControlTables ==
    /\ pc = "app_control"
    /\ control_bandit_selected' = format_as_dataframe(control_results)
    /\ control_misclassifications' =
          Times(create_misclassification_df(control_bandit_selected', model_accuracies),
                ScaleFactor)
    /\ pc' = "app_cost"
    /\ UNCHANGED <<model_accuracies, time_series_length, no_of_rewards, i, data,
                   reward_dict, results_list, control_results, rewards,
                   penalties, n, beta, model_selected, count_of_model_selected,
                   given, returned, cost_of_failure, no_of_requests,
                   ts_bandit_selected, ts_misclassifications,
                   cost_incurred, ts_cumsum, control_cumsum,
                   model_misclassifications, totals>>

\* Lines 71-74.
FinancialImpact ==
    /\ pc = "app_cost"
    /\ LET total_ts_misclassifications == LastRowTotal(ts_misclassifications)
           total_control_misclassifications == LastRowTotal(control_misclassifications)
           misclassification_diff ==
               total_control_misclassifications - total_ts_misclassifications
       IN  cost_incurred' = misclassification_diff * cost_of_failure
    /\ pc' = "app_cumsum"
    /\ UNCHANGED <<model_accuracies, time_series_length, no_of_rewards, i, data,
                   reward_dict, results_list, control_results, rewards,
                   penalties, n, beta, model_selected, count_of_model_selected,
                   given, returned, cost_of_failure, no_of_requests,
                   ts_bandit_selected, ts_misclassifications,
                   control_bandit_selected, control_misclassifications,
                   ts_cumsum, control_cumsum, model_misclassifications, totals>>

\* Lines 78-79.
CumulativeCosts ==
    /\ pc = "app_cumsum"
    /\ ts_cumsum' = CumulativeCost(ts_misclassifications, cost_of_failure)
    /\ control_cumsum' = CumulativeCost(control_misclassifications, cost_of_failure)
    /\ pc' = "app_table"
    /\ UNCHANGED <<model_accuracies, time_series_length, no_of_rewards, i, data,
                   reward_dict, results_list, control_results, rewards,
                   penalties, n, beta, model_selected, count_of_model_selected,
                   given, returned, cost_of_failure, no_of_requests,
                   ts_bandit_selected, ts_misclassifications,
                   control_bandit_selected, control_misclassifications,
                   cost_incurred, model_misclassifications, totals>>

\* Lines 99-105: the two columns of the table shown (a model a frame has no
\* column for has no entry: NaN), and their sums.
Tabulate ==
    /\ pc = "app_table"
    /\ model_misclassifications' =
          [Control |-> ColumnTotals(control_misclassifications),
           ThompsonSampling |-> ColumnTotals(ts_misclassifications)]
    /\ totals' = [Control |-> DictSum(model_misclassifications'.Control),
                  ThompsonSampling |-> DictSum(model_misclassifications'.ThompsonSampling)]
    /\ pc' = "app_done"
    /\ UNCHANGED <<model_accuracies, time_series_length, no_of_rewards, i, data,
                   reward_dict, results_list, control_results, rewards,
                   penalties, n, beta, model_selected, count_of_model_selected,
                   given, returned, cost_of_failure, no_of_requests,
                   ts_bandit_selected, ts_misclassifications,
                   control_bandit_selected, control_misclassifications,
                   cost_incurred, ts_cumsum, control_cumsum>>

(***************************************************************************)
(* The page script from the two series on: the accuracies and numbers of   *)
(* the form, any series generate_ts_time_series can return for them (a     *)
(* tally of any list of selections per step), and the series               *)
(* generate_control_time_series returns.                                   *)
(***************************************************************************)
SliderLevels == 0..AccuracyUnit

CostChoices == {1, 25}

RequestChoices == {1, 4, 1000}

StepTallies(no_of_models, rows) ==
    { Counter(l) : l \in [0..(rows - 1) -> 0..(no_of_models - 1)] }

InitApp ==
    /\ pc = "app_ts"
    /\ \E no_of_models \in MinModels..MaxModels :
         model_accuracies \in [0..(no_of_models - 1) -> SliderLevels]
    /\ time_series_length \in 1..MaxSteps
    /\ no_of_rewards \in 1..MaxRewards
    /\ time_series_length * no_of_rewards <= MaxObservations
    /\ cost_of_failure \in CostChoices
    /\ no_of_requests \in RequestChoices
    /\ results_list \in [0..(time_series_length - 1) ->
                            StepTallies(PyLen(model_accuracies), no_of_rewards)]
    /\ control_results =
          [t \in 0..(time_series_length - 1) |->
             control_experiment(ListOf(no_of_rewards, ListOf(PyLen(model_accuracies), 0)),
                                model_accuracies)]
    /\ i = time_series_length
    /\ data = EmptyList
    /\ reward_dict = [rewards |-> None, penalties |-> None]
    /\ rewards = EmptyList
    /\ penalties = EmptyList
    /\ n = 0
    /\ beta = EmptyList
    /\ model_selected = EmptyList
    /\ count_of_model_selected = EmptyList
    /\ given = [rewards |-> None, penalties |-> None]
    /\ returned = [rewards |-> None, penalties |-> None]
    /\ ts_bandit_selected = None
    /\ ts_misclassifications = None
    /\ control_bandit_selected = None
    /\ control_misclassifications = None
    /\ cost_incurred = None
    /\ ts_cumsum = None
    /\ control_cumsum = None
    /\ model_misclassifications = None
    /\ totals = None

NextApp ==
    \/ TSTables
    \/ ControlTables
    \/ FinancialImpact
    \/ CumulativeCosts
    \/ Tabulate

SpecApp == InitApp /\ [][NextApp]_vars

(***************************************************************************)
(* Properties.                                                             *)
(***************************************************************************)
ModelIndices == 0..(PyLen(model_accuracies) - 1)

\* The count a dict of one step holds for a model: 0 when the key is missing.
CountOf(d, m) == IF m \in DOMAIN d THEN d[m] ELSE 0

RECURSIVE TallyUpTo(_, _, _)
TallyUpTo(series, k, m) ==
    IF k = 0 THEN 0 ELSE CountOf(series[k - 1], m) + TallyUpTo(series, k - 1, m)

\* C1: control_experiment returns, for a batch of B rows and N models, a dict
\* whose keys are exactly 0..N-1, model m holding floor(B/N)+1 when
\* m < B mod N and floor(B/N) otherwise, whatever the rewards in the batch;
\* the counts sum to B and no two differ by more than 1.
ControlSplitIsEven ==
    pc = "control_returned" =>
        LET no_of_models == PyLen(model_accuracies)
            batch_size == PyLen(data)
            counts == count_of_model_selected
        IN  /\ DOMAIN counts = 0..(no_of_models - 1)
            /\ \A m \in DOMAIN counts :
                  counts[m] = IF m < batch_size % no_of_models
                              THEN (batch_size \div no_of_models) + 1
                              ELSE batch_size \div no_of_models
            /\ DictSum(counts) = batch_size
            /\ \A a, b \in DOMAIN counts : counts[a] - counts[b] <= 1

ControlSplitWithRemainder ==
    /\ pc = "control_returned"
    /\ PyLen(data) > PyLen(model_accuracies)
    /\ PyLen(data) % PyLen(model_accuracies) > 1
    /\ \E r \in DOMAIN data : \E m \in DOMAIN data[r] : data[r][m] = 1
    /\ count_of_model_selected[0] > count_of_model_selected[PyLen(model_accuracies) - 1]

\* C2: the values of the dict thompson_sampling_experiment returns sum to the
\* number of rows of the batch, from any starting lists and for any rewards.
TSCountsSumToRows ==
    pc = "ts_returned" => DictSum(count_of_model_selected) = PyLen(data)

TSCountsOfTwoModels ==
    /\ pc = "ts_returned"
    /\ PyLen(data) >= 2
    /\ Cardinality(DOMAIN count_of_model_selected) >= 2
    /\ \E m \in DOMAIN given.rewards : given.rewards[m] > 0
    /\ \E m \in DOMAIN given.penalties : given.penalties[m] > 0

\* C3, as claimed: every dict of a time step, of the Thompson Sampling series
\* and of the control series, has exactly the keys 0..N-1.
EveryStepHasEveryModelKey ==
    /\ \A k \in DOMAIN results_list : DOMAIN results_list[k] = ModelIndices
    /\ \A k \in DOMAIN control_results : DOMAIN control_results[k] = ModelIndices

\* C3, amended: a dict of the control series has exactly the keys 0..N-1; a
\* dict of the Thompson Sampling series has exactly the models selected at
\* least once in that step as keys, each with a count of at least 1.
StepKeysAreTheModelsSelected ==
    /\ \A k \in DOMAIN control_results : DOMAIN control_results[k] = ModelIndices
    /\ \A k \in DOMAIN results_list :
          /\ DOMAIN results_list[k] \subseteq ModelIndices
          /\ \A m \in DOMAIN results_list[k] : results_list[k][m] >= 1
    /\ pc = "ts_returned" =>
          /\ DOMAIN count_of_model_selected = {model_selected[j] : j \in DOMAIN model_selected}
          /\ \A m \in DOMAIN count_of_model_selected : count_of_model_selected[m] >= 1

StepWithUnselectedModel ==
    /\ pc = "done"
    /\ \E k \in DOMAIN results_list : DOMAIN results_list[k] # ModelIndices
    /\ \E k \in DOMAIN results_list : DOMAIN results_list[k] = ModelIndices
    /\ PyLen(control_results) = time_series_length

\* C4, as claimed: after every time step, reward count plus penalty count of a
\* model equals the number of times it was selected in the rows of that step.
CountsEqualSelectionsOfTheStep ==
    pc = "ts_returned" =>
        \A m \in ModelIndices :
            rewards[m] + penalties[m] = Occurrences(model_selected, m)

\* C4, amended: after every time step, reward count plus penalty count of a
\* model equals the number of times it was selected in the rows of all the
\* steps so far, this one included; after the first step that is the number
\* of times it was selected in the rows of that step.
CountsEqualSelectionsSoFar ==
    pc = "ts_returned" =>
        \A m \in ModelIndices :
            /\ rewards[m] + penalties[m]
                  = TallyUpTo(results_list, i, m) + Occurrences(model_selected, m)
            /\ i = 0 => rewards[m] + penalties[m] = Occurrences(model_selected, m)

SecondStepReturned ==
    /\ pc = "ts_returned"
    /\ i = 1
    /\ \E m \in ModelIndices :
          /\ Occurrences(model_selected, m) > 0
          /\ rewards[m] > 0
          /\ penalties[m] > 1
          /\ rewards[m] + penalties[m] > Occurrences(model_selected, m)

\* C5: the model selected for a row is the lowest-index model whose sampled
\* value equals the maximum of the row's values.
SelectedIsFirstMaximum ==
    (pc \in {"ts_rows", "ts_returned"} /\ n > 0) =>
        LET bandit == model_selected[n - 1]
        IN  /\ \A m \in DOMAIN beta : beta[m] <= beta[bandit]
            /\ \A m \in DOMAIN beta : m < bandit => beta[m] < beta[bandit]

TieAtTheMaximum ==
    /\ pc \in {"ts_rows", "ts_returned"}
    /\ n > 0
    /\ \E a, b \in DOMAIN beta :
          /\ a < b
          /\ beta[a] = beta[b]
          /\ beta[a] > 0
          /\ \A m \in DOMAIN beta : beta[m] <= beta[a]
          /\ model_selected[n - 1] = a

\* C6: when the number of columns of the batch differs from the number of
\* entries of the lists, the call fails before a row is processed and
\* returns nothing.
MismatchedStateFails ==
    NoOfModels # PyLen(given.rewards) =>
        /\ pc \in {"ts_enter", "ts_rows", "AssertionError", "IndexError"}
        /\ n = 0

\* C7: the first call of the allocator is given lists of zeros, every later
\* call the values the call before returned, and results_list holds one dict
\* per finished step, the last one that of the step finished last.
StateIsThreaded ==
    /\ (pc \in {"ts_enter", "ts_rows"} /\ i = 0) =>
          /\ given.rewards = ListOf(PyLen(model_accuracies), 0)
          /\ given.penalties = ListOf(PyLen(model_accuracies), 0)
    /\ (pc \in {"ts_enter", "ts_rows"} /\ i > 0) => given = returned
    /\ pc = "ts_enter" => (rewards = given.rewards /\ penalties = given.penalties)
    /\ pc \in {"ts_loop", "ts_enter", "ts_rows", "ts_returned"} =>
          PyLen(results_list) = i
    /\ (pc = "ts_loop" /\ i > 0) =>
          /\ results_list[i - 1] = count_of_model_selected
          /\ reward_dict = returned
    /\ pc \in {"control_loop", "done"} => PyLen(results_list) = time_series_length

LaterCallGivenReturnedState ==
    /\ pc = "ts_enter"
    /\ i > 0
    /\ \E m \in ModelIndices : given.rewards[m] > 0
    /\ \E m \in ModelIndices : given.penalties[m] > 0

\* C8: the cumulative cost series of either strategy, one value per time
\* step (the Totals row left out), never decreases from a step to the next,
\* also when the scale factor is 0.
CumulativeCostNeverDecreases ==
    pc \in {"app_table", "app_done"} =>
        \A series \in {ts_cumsum, control_cumsum} :
            /\ PyLen(series) = time_series_length
            /\ series[0] >= 0
            /\ \A t \in DOMAIN series :
                  (t + 1) \in DOMAIN series => series[t] <= series[t + 1]

CumulativeCostGrows ==
    /\ pc = "app_done"
    /\ time_series_length >= 2
    /\ ts_cumsum[0] > 0
    /\ ts_cumsum[1] > ts_cumsum[0]
    /\ control_cumsum[1] > control_cumsum[0]
    /\ DictSum(ts_misclassifications.values[1]) < DictSum(ts_misclassifications.values[0])

\* C9: the table format_as_dataframe makes of a series whose steps hold
\* different keys has one row per step and a last row Totals, the same
\* columns in every row, 0 where a step lacked the key, and in Totals the sum
\* of each column over the rows of the steps.
TableIsNormalised ==
    pc \in {"app_control", "app_cost", "app_cumsum", "app_table", "app_done"} =>
        LET df == ts_bandit_selected
            steps == PyLen(results_list)
        IN  /\ PyLen(df.values) = steps + 1
            /\ PyLen(df.index) = steps + 1
            /\ df.index[steps] = "Totals"
            /\ \A t \in 0..(steps - 1) : df.index[t] = ToString(t)
            /\ df.columns = UNION {DOMAIN results_list[t] : t \in DOMAIN results_list}
            /\ \A r \in DOMAIN df.values : DOMAIN df.values[r] = df.columns
            /\ \A t \in 0..(steps - 1) : \A c \in df.columns :
                  df.values[t][c] = CountOf(results_list[t], c)
            /\ \A c \in df.columns :
                  df.values[steps][c] = TallyUpTo(results_list, steps, c)

TableOfDifferingKeys ==
    /\ pc = "app_done"
    /\ \E t, u \in DOMAIN results_list :
          /\ t < u
          /\ DOMAIN results_list[t] # DOMAIN results_list[u]
          /\ \E c \in ts_bandit_selected.columns :
                /\ c \notin DOMAIN results_list[t]
                /\ ts_bandit_selected.values[t][c] = 0
                /\ ts_bandit_selected.values[u][c] > 0

\* C10: the headline financial benefit equals the cost of a failure times the
\* difference of the two totals reported below the table of misclassifications
\* per model.
HeadlineMatchesReportedTotals ==
    pc = "app_done" =>
        cost_incurred = cost_of_failure * (totals.Control - totals.ThompsonSampling)

=============================================================================
